---------------------------- MODULE Spec2Model ----------------------------
(***************************************************************************)
(* Room allocation engine of app.py: parse_time_slot, needs_lab_room,      *)
(* is_lab_room, has_time_conflict, get_room_priority_group,                *)
(* distribute_rooms_by_priority and allocate_rooms.                        *)
(*                                                                         *)
(* Texts (room names, course codes, days and time cells) are TLA+ strings; *)
(* the string functions of the source are computed character by character. *)
(***************************************************************************)
EXTENDS Integers, Sequences, FiniteSets, TLC

(***************************************************************************)
(* Bounds of the model.                                                    *)
(***************************************************************************)
\* longest course list of Spec
MaxCourses == 3
\* longest room list of Spec
MaxRooms == 2
\* longest room list of the long runs of Spec (beyond the fairness window of 8)
MaxLongRooms == 9

(***************************************************************************)
(* Values of the Python run-time.                                          *)
(***************************************************************************)
\* Python's None (a failed parse)
None == [none |-> TRUE]

\* pandas' missing cell; pd.isna is true of it and of nothing else here
NaN == [nan |-> TRUE]

\* a cell holding text t
Cell(t) == [v |-> t]

isna(c) == c = NaN

\* str(c) of a cell: str(float('nan')) is 'nan'
str(c) == IF isna(c) THEN "nan" ELSE c.v

(***************************************************************************)
(* Python string methods.                                                  *)
(***************************************************************************)
Ch(s, i) == SubSeq(s, i, i)

LowerAlphabet == "abcdefghijklmnopqrstuvwxyz"

UpperAlphabet == "ABCDEFGHIJKLMNOPQRSTUVWXYZ"

Digits == "0123456789"

\* the characters str.strip() and the regex class \s remove
IsSpace(c) == c \in {" ", "\t", "\n", "\r"}

IsDigit(c) == \E d \in 1..10 : Ch(Digits, d) = c

\* int() of one digit
DigitValue(c) == (CHOOSE d \in 1..10 : Ch(Digits, d) = c) - 1

UpperCh(c) ==
    IF \E k \in 1..26 : Ch(LowerAlphabet, k) = c
    THEN Ch(UpperAlphabet, CHOOSE k \in 1..26 : Ch(LowerAlphabet, k) = c)
    ELSE c

LowerCh(c) ==
    IF \E k \in 1..26 : Ch(UpperAlphabet, k) = c
    THEN Ch(LowerAlphabet, CHOOSE k \in 1..26 : Ch(UpperAlphabet, k) = c)
    ELSE c

RECURSIVE upper(_)
upper(s) == IF Len(s) = 0 THEN "" ELSE UpperCh(Ch(s, 1)) \o upper(SubSeq(s, 2, Len(s)))

RECURSIVE lower(_)
lower(s) == IF Len(s) = 0 THEN "" ELSE LowerCh(Ch(s, 1)) \o lower(SubSeq(s, 2, Len(s)))

\* str.strip()
strip(s) ==
    IF \A i \in 1..Len(s) : IsSpace(Ch(s, i)) THEN ""
    ELSE LET a == CHOOSE i \in 1..Len(s) :
                     /\ ~IsSpace(Ch(s, i))
                     /\ \A j \in 1..(i - 1) : IsSpace(Ch(s, j))
             b == CHOOSE i \in 1..Len(s) :
                     /\ ~IsSpace(Ch(s, i))
                     /\ \A j \in (i + 1)..Len(s) : IsSpace(Ch(s, j))
         IN  SubSeq(s, a, b)

\* str.startswith(p)
startswith(s, p) == Len(s) >= Len(p) /\ SubSeq(s, 1, Len(p)) = p

\* the Python test `p in s` of two strings
contains(s, p) == \E i \in 1..(Len(s) - Len(p) + 1) : SubSeq(s, i, i + Len(p) - 1) = p

\* int() of a string of digits
RECURSIVE int(_)
int(s) == IF Len(s) = 0 THEN 0
          ELSE 10 * int(SubSeq(s, 1, Len(s) - 1)) + DigitValue(Ch(s, Len(s)))

(***************************************************************************)
(* parse_time_slot: the days.                                              *)
(***************************************************************************)
\* day_mapping, in the dictionary's insertion order
day_mapping ==
    << <<"monday", "Mon">>, <<"tuesday", "Tue">>, <<"wednesday", "Wed">>,
       <<"thursday", "Thu">>, <<"friday", "Fri">>, <<"saturday", "Sat">>,
       <<"sunday", "Sun">>,
       <<"mon", "Mon">>, <<"tue", "Tue">>, <<"wed", "Wed">>,
       <<"thu", "Thu">>, <<"fri", "Fri">>, <<"sat", "Sat">>, <<"sun", "Sun">> >>

\* the separators of re.split(r'[/,&\s]+', ...)
IsDaySeparator(c) == c \in {"/", ",", "&"} \/ IsSpace(c)

\* re.split(r'[/,&\s]+', s): the pieces between maximal runs of separators
\* (a leading or trailing run leaves an empty piece, as in Python)
RECURSIVE SplitFrom(_, _, _)
SplitFrom(s, i, piece) ==
    IF i > Len(s) THEN <<piece>>
    ELSE IF IsDaySeparator(Ch(s, i))
         THEN IF i > 1 /\ IsDaySeparator(Ch(s, i - 1))
              THEN SplitFrom(s, i + 1, piece)
              ELSE <<piece>> \o SplitFrom(s, i + 1, "")
         ELSE SplitFrom(s, i + 1, piece \o Ch(s, i))

split_days(s) == SplitFrom(s, 1, "")

\* the body of the loop over days_list: what one token appends
StandardizedDay(token) ==
    LET day == strip(token)
    IN  IF \E k \in 1..Len(day_mapping) : day_mapping[k][1] = day
        THEN <<day_mapping[CHOOSE k \in 1..Len(day_mapping) : day_mapping[k][1] = day][2]>>
        ELSE IF Len(day) >= 3
                /\ \E k \in 1..Len(day_mapping) :
                       startswith(day, SubSeq(day_mapping[k][1], 1, 3))
             THEN LET k == CHOOSE k \in 1..Len(day_mapping) :
                              /\ startswith(day, SubSeq(day_mapping[k][1], 1, 3))
                              /\ \A j \in 1..(k - 1) :
                                     ~startswith(day, SubSeq(day_mapping[j][1], 1, 3))
                  IN  <<day_mapping[k][2]>>
             ELSE <<>>

RECURSIVE StandardizeFrom(_, _)
StandardizeFrom(tokens, i) ==
    IF i > Len(tokens) THEN <<>>
    ELSE StandardizedDay(tokens[i]) \o StandardizeFrom(tokens, i + 1)

standardized_days(days_str) == StandardizeFrom(split_days(lower(days_str)), 1)

(***************************************************************************)
(* parse_time_slot: the time.                                              *)
(* time_pattern is                                                         *)
(*   (\d{1,2}):(\d{2})\s*(AM|PM)\s*-\s*(\d{1,2}):(\d{2})\s*(AM|PM)         *)
(* searched with re.IGNORECASE.  A position past the end of the text holds *)
(* no character.                                                           *)
(***************************************************************************)
At(s, i) == IF i >= 1 /\ i <= Len(s) THEN Ch(s, i) ELSE ""

\* \s* from position i: the position of the first character that is no space
\* (what follows in the pattern never starts with a space, so the greedy
\* match is the only one)
RECURSIVE SkipSpaces(_, _)
SkipSpaces(s, i) == IF IsSpace(At(s, i)) THEN SkipSpaces(s, i + 1) ELSE i

\* (\d{1,2}): from position i: the number of digits taken (0: no match).
\* Two digits are tried first; one digit is taken when a colon follows it.
HourDigits(s, i) ==
    IF IsDigit(At(s, i)) /\ IsDigit(At(s, i + 1)) /\ At(s, i + 2) = ":" THEN 2
    ELSE IF IsDigit(At(s, i)) /\ At(s, i + 1) = ":" THEN 1
    ELSE 0

\* (AM|PM) at position i, case-insensitive
IsPeriodAt(s, i) == upper(SubSeq(s, i, i + 1)) \in {"AM", "PM"}

\* (\d{1,2}):(\d{2})\s*(AM|PM) from position i:
\* None, or the three groups and the position after the match
ClockAt(s, i) ==
    LET n == HourDigits(s, i)
        m == i + n + 1
        p == SkipSpaces(s, m + 2)
    IN  IF n > 0 /\ IsDigit(At(s, m)) /\ IsDigit(At(s, m + 1))
           /\ p + 1 <= Len(s) /\ IsPeriodAt(s, p)
        THEN [hour |-> SubSeq(s, i, i + n - 1), minute |-> SubSeq(s, m, m + 1),
              period |-> SubSeq(s, p, p + 1), next |-> p + 2]
        ELSE None

\* the whole pattern from position i: None or match.groups()
MatchAt(s, i) ==
    LET a == ClockAt(s, i)
    IN  IF a = None THEN None
        ELSE LET d == SkipSpaces(s, a.next)
             IN  IF At(s, d) # "-" THEN None
                 ELSE LET b == ClockAt(s, SkipSpaces(s, d + 1))
                      IN  IF b = None THEN None
                          ELSE [start_hour |-> a.hour, start_min |-> a.minute,
                                start_period |-> a.period, end_hour |-> b.hour,
                                end_min |-> b.minute, end_period |-> b.period]

\* re.search(time_pattern, time_str, re.IGNORECASE): the leftmost match
re_search(s) ==
    IF \E i \in 1..Len(s) : MatchAt(s, i) # None
    THEN MatchAt(s, CHOOSE i \in 1..Len(s) :
                        /\ MatchAt(s, i) # None
                        /\ \A j \in 1..(i - 1) : MatchAt(s, j) = None)
    ELSE None

to_minutes(hour, minute, period) ==
    LET h == int(hour)
        m == int(minute)
        h24 == IF upper(period) = "PM" /\ h # 12 THEN h + 12
               ELSE IF upper(period) = "AM" /\ h = 12 THEN 0
               ELSE h
    IN  h24 * 60 + m

parse_time_slot(days_cell, time_cell) ==
    IF isna(days_cell) \/ isna(time_cell) THEN None
    ELSE LET days_str == strip(str(days_cell))
             time_str == strip(str(time_cell))
             days == standardized_days(days_str)
             match == re_search(time_str)
         IN  IF days = <<>> THEN None
             ELSE IF match = None THEN None
             ELSE [days |-> days,
                   start_time |-> to_minutes(match.start_hour, match.start_min, match.start_period),
                   end_time |-> to_minutes(match.end_hour, match.end_min, match.end_period),
                   original_days |-> days_str,
                   original_time |-> time_str]

(***************************************************************************)
(* Course and room classification, conflicts.                              *)
(***************************************************************************)
lab_prefixes == <<"MIS", "CSC", "BDS", "SEC">>

needs_lab_room(course_code) ==
    IF isna(course_code) THEN FALSE
    ELSE LET code == strip(upper(str(course_code)))
         IN  \E k \in 1..Len(lab_prefixes) : startswith(code, lab_prefixes[k])

is_lab_room(room_name) ==
    LET room_str == upper(room_name)
    IN  \/ contains(room_str, "IT LAB")
        \/ contains(room_str, "ITROOM")
        \/ contains(room_str, "IT_LAB")
        \/ contains(room_str, "IT_ROOM")

\* set(slot['days'])
DaySet(slot) == {slot.days[k] : k \in 1..Len(slot.days)}

\* the mutant of has_time_conflict with closed intervals (< for <=)
has_time_conflict_Closed(slot1, slot2) ==
    IF slot1 = None \/ slot2 = None THEN FALSE
    ELSE IF DaySet(slot1) \cap DaySet(slot2) = {} THEN FALSE
    ELSE ~(slot1.end_time < slot2.start_time \/ slot2.end_time < slot1.start_time)

has_time_conflict(slot1, slot2) ==
    IF slot1 = None \/ slot2 = None THEN FALSE
    ELSE IF DaySet(slot1) \cap DaySet(slot2) = {} THEN FALSE
    ELSE ~(slot1.end_time <= slot2.start_time \/ slot2.end_time <= slot1.start_time)

get_room_priority_group(room_name) ==
    LET room_str == upper(room_name)
    IN  IF contains(room_str, "CBM") THEN 1
        ELSE IF contains(room_str, "SSK") THEN 2
        ELSE IF contains(room_str, "I.MGMT") \/ contains(room_str, "IMGMT") THEN 3
        ELSE IF contains(room_str, "LIB") THEN 4
        ELSE IF \/ contains(room_str, "CREKCLG") \/ contains(room_str, "CHS")
                \/ contains(room_str, "CREEK") \/ contains(room_str, "CRK") THEN 5
        ELSE 6

(***************************************************************************)
(* allocate_rooms as a state machine: one step for the set-up before the   *)
(* loop, one step per course of the loop, one step for the return.         *)
(***************************************************************************)
VARIABLES
    courses_df,           \* the argument: the rows, in order
    rooms_list,           \* the argument: the room names, in order
    pc,                   \* "start", "loop", "done"; "call", "returned" in SpecConflict
    parsed_time_slot,     \* df['parsed_time_slot'], one entry per row
    lab_rooms,
    regular_rooms,
    room_schedule,        \* room -> the slots booked in it, in booking order
    recently_allocated,
    allocation_counter,
    allocated_courses,    \* the course_dict records appended so far
    rooms_required_count,
    preferred_rooms,      \* the candidate list of the last room search
    result,               \* None, or what allocate_rooms returned
    slot1, slot2,         \* SpecConflict: the arguments of has_time_conflict
    conflict              \* SpecConflict: what it returned, once pc is "returned"

allocVars == <<courses_df, rooms_list, pc, parsed_time_slot, lab_rooms, regular_rooms,
               room_schedule, recently_allocated, allocation_counter,
               allocated_courses, rooms_required_count, preferred_rooms, result>>

conflictVars == <<slot1, slot2, conflict>>

vars == <<allocVars, conflictVars>>

\* allocation_counter % 8 == 0
ResetPeriod == 8

\* the labels allocate_rooms writes
INVALID_TIME_SLOT == "INVALID TIME SLOT"

ROOM_REQUIRED == "ROOM REQUIRED"

\* a row of the courses dataframe
Row(course_code, days, times) ==
    [course_code |-> course_code, days |-> days, times |-> times]

\* all sequences over S of length at most n
SeqsUpTo(S, n) == UNION {[1..k -> S] : k \in 0..n}

\* the rows the course lists of Spec are made of
CourseUniverse ==
    { Row(Cell("MIS101"), Cell("Tuesday / Thursday"), Cell("10:45 AM - 12:15 PM")),
      Row(Cell("MAN405"), Cell("Tuesday / Thursday"), Cell("10:45 AM - 12:15 PM")),
      Row(Cell("MAN405"), Cell("Tue"), Cell("12:15 PM - 1:30 PM")),
      Row(Cell("MAN405"), Cell("Fri"), Cell("10:45 AM - 12:15 PM")),
      Row(Cell("MAN405"), Cell("Mon"), Cell("25:99 AM - 3:00 PM")),
      Row(Cell("csc210"), Cell("Thu"), Cell("TBA")) }

\* the rooms the room lists of Spec are made of
RoomUniverse == {"CBM101", "CBM102", "IT LAB 1"}

\* the rooms of the long runs: room lists are prefixes of this list
LongRooms ==
    <<"CBM101", "IT LAB 1", "CBM102", "SSK201", "IT LAB 2", "SSK202",
      "LIB1", "CRK1", "ROOM X", "IMGMT1", "CBM ITROOM">>

\* the rows of the long runs: one slot, with or without a lab requirement,
\* and a slot that starts when the first ends
LongRows ==
    { Row(Cell("MIS101"), Cell("Tuesday / Thursday"), Cell("10:45 AM - 12:15 PM")),
      Row(Cell("MAN405"), Cell("Tuesday / Thursday"), Cell("10:45 AM - 12:15 PM")),
      Row(Cell("MAN405"), Cell("Tue"), Cell("12:15 PM - 1:30 PM")) }

(***************************************************************************)
(* The pure functions of the source, tabulated once over the texts of the  *)
(* model: the actions below look the results up instead of computing them  *)
(* again in every state.                                                   *)
(***************************************************************************)
ModelRows == CourseUniverse \cup LongRows

ModelRooms == RoomUniverse \cup {LongRooms[k] : k \in 1..Len(LongRooms)}

\* parse_time_slot of each row, as df.apply computes it
ParsedRow == [row \in ModelRows |-> parse_time_slot(row.days, row.times)]

\* needs_lab_room of each course code
NeedsLab == [code \in {row.course_code : row \in ModelRows} |-> needs_lab_room(code)]

\* is_lab_room of each room
IsLab == [room \in ModelRooms |-> is_lab_room(room)]

\* get_room_priority_group of each room
PriorityGroup == [room \in ModelRooms |-> get_room_priority_group(room)]

(***************************************************************************)
(* distribute_rooms_by_priority.  random.shuffle may leave a group in any  *)
(* order, so the function has a set of possible results.                   *)
(***************************************************************************)
\* the priorities get_room_priority_group can return
Priorities == 1..6

\* variant of the grouping that keeps the excluded rooms
priority_group_NoExclude(rooms_seq, exclude_allocated, priority) ==
    LET Keep(room) == PriorityGroup[room] = priority
    IN  SelectSeq(rooms_seq, Keep)

\* priority_groups[priority]: the rooms of that priority not excluded, in list order
priority_group(rooms_seq, exclude_allocated, priority) ==
    LET Keep(room) == room \notin exclude_allocated
                      /\ PriorityGroup[room] = priority
    IN  SelectSeq(rooms_seq, Keep)

\* the results random.shuffle can leave in a list
shuffle(group) ==
    LET n == Len(group)
        Orders == {f \in [1..n -> 1..n] : \A a, b \in 1..n : a # b => f[a] # f[b]}
    IN  {[k \in 1..n |-> group[f[k]]] : f \in Orders}

\* final_room_order from the groups of priority p and above
RECURSIVE OrdersFrom(_, _, _)
OrdersFrom(rooms_seq, exclude_allocated, p) ==
    IF p \notin Priorities THEN {<<>>}
    ELSE {g \o rest : g \in shuffle(priority_group(rooms_seq, exclude_allocated, p)),
                      rest \in OrdersFrom(rooms_seq, exclude_allocated, p + 1)}

\* variant: one shuffle of all the rooms kept, without the priority groups
distribute_rooms_by_priority_OneShuffle(rooms_seq, exclude_allocated) ==
    LET Keep(room) == room \notin exclude_allocated
    IN  shuffle(SelectSeq(rooms_seq, Keep))

distribute_rooms_by_priority(rooms_seq, exclude_allocated) ==
    OrdersFrom(rooms_seq, exclude_allocated, 1)

\* the state before the call's first statement
Idle ==
    /\ pc = "start"
    /\ parsed_time_slot = <<>>
    /\ lab_rooms = <<>>
    /\ regular_rooms = <<>>
    /\ room_schedule = <<>>
    /\ recently_allocated = {}
    /\ allocation_counter = 0
    /\ allocated_courses = <<>>
    /\ rooms_required_count = 0
    /\ preferred_rooms = <<>>
    /\ result = None

NoConflictCall == slot1 = None /\ slot2 = None /\ conflict = FALSE

\* short course lists over every kind of row (main_app calls allocate_rooms
\* only with len(combined_df) > 0), short room lists, which may be empty and
\* may name a room twice (load_rooms removes neither)
InitShort ==
    /\ courses_df \in SeqsUpTo(CourseUniverse, MaxCourses) \ {<<>>}
    /\ rooms_list \in SeqsUpTo(RoomUniverse, MaxRooms)

\* long runs: k rooms and more than k courses, a run of one row and then a
\* run of another (or of the same one)
InitLong ==
    \E k \in 0..MaxLongRooms, extra \in 1..2, first \in LongRows, second \in LongRows :
        \E m \in 0..(k + extra) :
            /\ rooms_list = SubSeq(LongRooms, 1, k)
            /\ courses_df = [j \in 1..(k + extra) |-> IF j <= m THEN first ELSE second]

Init ==
    /\ InitShort \/ InitLong
    /\ Idle
    /\ NoConflictCall

\* the next course of the loop
index == Len(allocated_courses) + 1

InLoop == pc = "loop" /\ index <= Len(courses_df)

\* the set of keys of room_schedule
RoomSet == {rooms_list[k] : k \in 1..Len(rooms_list)}

\* lines 438-462: everything before the loop
Setup ==
    /\ pc = "start"
    /\ parsed_time_slot' = [j \in 1..Len(courses_df) |->
                               ParsedRow[courses_df[j]]]
    /\ lab_rooms' = SelectSeq(rooms_list, LAMBDA room : IsLab[room])
    /\ regular_rooms' = SelectSeq(rooms_list, LAMBDA room : ~IsLab[room])
    /\ room_schedule' = [room \in RoomSet |-> <<>>]
    /\ recently_allocated' = {}
    /\ allocation_counter' = 0
    /\ allocated_courses' = <<>>
    /\ rooms_required_count' = 0
    /\ pc' = "loop"
    /\ UNCHANGED <<courses_df, rooms_list, preferred_rooms, result, conflictVars>>

\* the mutant of course_dict that reads the fields of the first row
course_dict_FirstRow(j, allocated_room) ==
    [course_code |-> courses_df[1].course_code,
     days |-> courses_df[1].days,
     times |-> courses_df[1].times,
     allocated_room |-> allocated_room]

\* course_dict with its allocated_room set
course_dict(j, allocated_room) ==
    [course_code |-> courses_df[j].course_code,
     days |-> courses_df[j].days,
     times |-> courses_df[j].times,
     allocated_room |-> allocated_room]

\* the mutant of the invalid-slot branch that counts the course as a shortfall
MarkInvalid_Counted ==
    /\ InLoop
    /\ parsed_time_slot[index] = None
    /\ allocated_courses' = Append(allocated_courses, course_dict(index, INVALID_TIME_SLOT))
    /\ rooms_required_count' = rooms_required_count + 1
    /\ UNCHANGED <<courses_df, rooms_list, pc, parsed_time_slot, lab_rooms, regular_rooms,
                   room_schedule, recently_allocated, allocation_counter,
                   preferred_rooms, result, conflictVars>>

\* lines 483-487
MarkInvalid ==
    /\ InLoop
    /\ parsed_time_slot[index] = None
    /\ allocated_courses' = Append(allocated_courses, course_dict(index, INVALID_TIME_SLOT))
    /\ UNCHANGED <<courses_df, rooms_list, pc, parsed_time_slot, lab_rooms, regular_rooms,
                   room_schedule, recently_allocated, allocation_counter,
                   rooms_required_count, preferred_rooms, result, conflictVars>>

\* the mutant of the candidate list that puts the regular rooms first for every course
PreferredRooms_RegularFirst(course_code) ==
    LET labs == distribute_rooms_by_priority(lab_rooms, recently_allocated)
        regulars == distribute_rooms_by_priority(regular_rooms, recently_allocated)
    IN  {r \o l : r \in regulars, l \in labs}

\* lines 489-499: the candidate lists the shuffles can produce
PreferredRooms(course_code) ==
    LET labs == distribute_rooms_by_priority(lab_rooms, recently_allocated)
        regulars == distribute_rooms_by_priority(regular_rooms, recently_allocated)
    IN  IF NeedsLab[course_code]
        THEN {l \o r : l \in labs, r \in regulars}
        ELSE {r \o l : r \in regulars, l \in labs}

\* lines 506-510: has_conflict of one room
has_conflict(room, time_slot) ==
    \E k \in 1..Len(room_schedule[room]) :
        has_time_conflict(time_slot, room_schedule[room][k])

\* the mutant of the room search that takes the first candidate unchecked
FirstFree_Unchecked(candidates, time_slot) == IF Len(candidates) > 0 THEN 1 ELSE 0

\* variant of the room search that takes the last free candidate
FirstFree_Last(candidates, time_slot) ==
    IF \E k \in 1..Len(candidates) : ~has_conflict(candidates[k], time_slot)
    THEN CHOOSE k \in 1..Len(candidates) :
             /\ ~has_conflict(candidates[k], time_slot)
             /\ \A j \in (k + 1)..Len(candidates) : has_conflict(candidates[j], time_slot)
    ELSE 0

\* the position in the candidate list where the for loop breaks (0: it never does)
FirstFree(candidates, time_slot) ==
    IF \E k \in 1..Len(candidates) : ~has_conflict(candidates[k], time_slot)
    THEN CHOOSE k \in 1..Len(candidates) :
             /\ ~has_conflict(candidates[k], time_slot)
             /\ \A j \in 1..(k - 1) : has_conflict(candidates[j], time_slot)
    ELSE 0

\* variant of the reset that never clears the set
ClearEvery8_Never(counter, recent) == recent

\* lines 527-530, on the counter and the set as the iteration leaves them
ClearEvery8(counter, recent) == IF counter % ResetPeriod = 0 THEN {} ELSE recent

\* the mutant of the allocation that does not record the booking
AllocateRoom_NoBooking ==
    /\ InLoop
    /\ parsed_time_slot[index] # None
    /\ \E candidates \in PreferredRooms(courses_df[index].course_code) :
           LET time_slot == parsed_time_slot[index]
               k == FirstFree(candidates, time_slot)
           IN  /\ k > 0
               /\ preferred_rooms' = candidates
               /\ allocated_courses' =
                      Append(allocated_courses, course_dict(index, candidates[k]))
               /\ allocation_counter' = allocation_counter + 1
               /\ recently_allocated' =
                      ClearEvery8(allocation_counter + 1,
                                  recently_allocated \cup {candidates[k]})
    /\ UNCHANGED <<courses_df, rooms_list, pc, parsed_time_slot, lab_rooms, regular_rooms,
                   room_schedule, rooms_required_count, result, conflictVars>>

\* lines 489-519 and 525-530: a room is found
AllocateRoom ==
    /\ InLoop
    /\ parsed_time_slot[index] # None
    /\ \E candidates \in PreferredRooms(courses_df[index].course_code) :
           LET time_slot == parsed_time_slot[index]
               k == FirstFree(candidates, time_slot)
           IN  /\ k > 0
               /\ preferred_rooms' = candidates
               /\ allocated_courses' =
                      Append(allocated_courses, course_dict(index, candidates[k]))
               /\ room_schedule' =
                      [room_schedule EXCEPT ![candidates[k]] = Append(@, time_slot)]
               /\ allocation_counter' = allocation_counter + 1
               /\ recently_allocated' =
                      ClearEvery8(allocation_counter + 1,
                                  recently_allocated \cup {candidates[k]})
    /\ UNCHANGED <<courses_df, rooms_list, pc, parsed_time_slot, lab_rooms, regular_rooms,
                   rooms_required_count, result, conflictVars>>

\* the mutant of the shortfall branch that does not count the shortfall
RoomRequired_NotCounted ==
    /\ InLoop
    /\ parsed_time_slot[index] # None
    /\ \E candidates \in PreferredRooms(courses_df[index].course_code) :
           /\ FirstFree(candidates, parsed_time_slot[index]) = 0
           /\ preferred_rooms' = candidates
    /\ allocated_courses' = Append(allocated_courses, course_dict(index, ROOM_REQUIRED))
    /\ recently_allocated' = ClearEvery8(allocation_counter, recently_allocated)
    /\ UNCHANGED <<courses_df, rooms_list, pc, parsed_time_slot, lab_rooms, regular_rooms,
                   room_schedule, allocation_counter, rooms_required_count, result,
                   conflictVars>>

\* lines 489-510 and 521-530: no candidate is free
RoomRequired ==
    /\ InLoop
    /\ parsed_time_slot[index] # None
    /\ \E candidates \in PreferredRooms(courses_df[index].course_code) :
           /\ FirstFree(candidates, parsed_time_slot[index]) = 0
           /\ preferred_rooms' = candidates
    /\ allocated_courses' = Append(allocated_courses, course_dict(index, ROOM_REQUIRED))
    /\ rooms_required_count' = rooms_required_count + 1
    /\ recently_allocated' = ClearEvery8(allocation_counter, recently_allocated)
    /\ UNCHANGED <<courses_df, rooms_list, pc, parsed_time_slot, lab_rooms, regular_rooms,
                   room_schedule, allocation_counter, result, conflictVars>>

\* line 532
Return ==
    /\ pc = "loop"
    /\ index > Len(courses_df)
    /\ result' = [result_df |-> allocated_courses, rooms_needed |-> rooms_required_count]
    /\ pc' = "done"
    /\ UNCHANGED <<courses_df, rooms_list, parsed_time_slot, lab_rooms, regular_rooms,
                   room_schedule, recently_allocated, allocation_counter,
                   allocated_courses, rooms_required_count, preferred_rooms, conflictVars>>

\* main_app's "Rooms Allocated" metric of a returned dataframe
allocated_count(result_df) ==
    Cardinality({j \in 1..Len(result_df) :
                     result_df[j].allocated_room \notin {ROOM_REQUIRED, INVALID_TIME_SLOT}})

Next == Setup \/ MarkInvalid \/ AllocateRoom \/ RoomRequired \/ Return

Spec == Init /\ [][Next]_vars

(***************************************************************************)
(* has_time_conflict on its own: every pair of slots of a small grid.      *)
(***************************************************************************)
\* the minutes the slots of SpecConflict start and end at
ConflictMinutes == {540, 600, 601, 660}

ConflictDays == {<<"Mon">>, <<"Tue">>, <<"Mon", "Tue">>, <<"Tue", "Tue">>}

\* parse_time_slot's records, whatever the order of start and end, and None
ConflictSlots ==
    {None} \cup
    {[days |-> d, start_time |-> a, end_time |-> b, original_days |-> "", original_time |-> ""] :
         d \in ConflictDays, a \in ConflictMinutes, b \in ConflictMinutes}

InitConflict ==
    /\ slot1 \in ConflictSlots
    /\ slot2 \in ConflictSlots
    /\ conflict = FALSE
    /\ courses_df = <<>>
    /\ rooms_list = <<>>
    /\ pc = "call"
    /\ parsed_time_slot = <<>>
    /\ lab_rooms = <<>>
    /\ regular_rooms = <<>>
    /\ room_schedule = <<>>
    /\ recently_allocated = {}
    /\ allocation_counter = 0
    /\ allocated_courses = <<>>
    /\ rooms_required_count = 0
    /\ preferred_rooms = <<>>
    /\ result = None

CallHasTimeConflict ==
    /\ pc = "call"
    /\ conflict' = has_time_conflict(slot1, slot2)
    /\ pc' = "returned"
    /\ UNCHANGED <<slot1, slot2, courses_df, rooms_list, parsed_time_slot, lab_rooms,
                   regular_rooms, room_schedule, recently_allocated, allocation_counter,
                   allocated_courses, rooms_required_count, preferred_rooms, result>>

NextConflict == CallHasTimeConflict

SpecConflict == InitConflict /\ [][NextConflict]_vars

(***************************************************************************)
(* parse_time_slot on its own: one call on a row of days and time text.    *)
(* The call's arguments are the cells of courses_df[1]; what it returns is *)
(* parsed_time_slot[1], once pc is "parsed".                               *)
(***************************************************************************)
\* the days cells of SpecParse
ParseDays ==
    { Cell("Tuesday / Thursday"), Cell("Mon"), Cell("fri"), Cell("Thurs & Sat"),
      Cell(" wed,WED "), Cell("xx"), Cell(""), NaN }

\* the time cells of SpecParse
ParseTimes ==
    { Cell("10:45 AM - 12:15 PM"), Cell("11:00 PM - 1:00 AM"), Cell("9:00 AM - 9:00 AM"),
      Cell("25:99 AM - 3:00 PM"), Cell("12:00 AM - 12:30 PM"), Cell("12:00 PM - 11:59 PM"),
      Cell("at 1:00 pm-2:00pm"), Cell("9:5 AM - 1:00 PM"), Cell("TBA"), Cell(""), NaN }

InitParse ==
    /\ \E days \in ParseDays, times \in ParseTimes :
           courses_df = <<Row(Cell("MAN405"), days, times)>>
    /\ pc = "parse"
    /\ rooms_list = <<>>
    /\ parsed_time_slot = <<>>
    /\ lab_rooms = <<>>
    /\ regular_rooms = <<>>
    /\ room_schedule = <<>>
    /\ recently_allocated = {}
    /\ allocation_counter = 0
    /\ allocated_courses = <<>>
    /\ rooms_required_count = 0
    /\ preferred_rooms = <<>>
    /\ result = None
    /\ NoConflictCall

CallParseTimeSlot ==
    /\ pc = "parse"
    /\ parsed_time_slot' = <<parse_time_slot(courses_df[1].days, courses_df[1].times)>>
    /\ pc' = "parsed"
    /\ UNCHANGED <<courses_df, rooms_list, lab_rooms, regular_rooms, room_schedule,
                   recently_allocated, allocation_counter, allocated_courses,
                   rooms_required_count, preferred_rooms, result, conflictVars>>

NextParse == CallParseTimeSlot

SpecParse == InitParse /\ [][NextParse]_vars

(***************************************************************************)
(* distribute_rooms_by_priority on its own: a room list, which may repeat   *)
(* a room, and a set of excluded rooms; the call leaves one of the orders   *)
(* the shuffles can produce.                                                *)
(***************************************************************************)
MaxDistRooms == 3

DistRooms == {"CBM101", "CBM102", "SSK201", "LIB1", "ROOM X"}

InitDistribute ==
    /\ rooms_list \in SeqsUpTo(DistRooms, MaxDistRooms)
    /\ recently_allocated \in SUBSET DistRooms
    /\ pc = "distribute"
    /\ courses_df = <<>>
    /\ parsed_time_slot = <<>>
    /\ lab_rooms = <<>>
    /\ regular_rooms = <<>>
    /\ room_schedule = <<>>
    /\ allocation_counter = 0
    /\ allocated_courses = <<>>
    /\ rooms_required_count = 0
    /\ preferred_rooms = <<>>
    /\ result = None
    /\ NoConflictCall

CallDistribute ==
    /\ pc = "distribute"
    /\ preferred_rooms' \in distribute_rooms_by_priority(rooms_list, recently_allocated)
    /\ pc' = "distributed"
    /\ UNCHANGED <<courses_df, rooms_list, parsed_time_slot, lab_rooms, regular_rooms,
                   room_schedule, recently_allocated, allocation_counter,
                   allocated_courses, rooms_required_count, result, conflictVars>>

NextDistribute == CallDistribute

SpecDistribute == InitDistribute /\ [][NextDistribute]_vars

(***************************************************************************)
(* The claims.                                                             *)
(***************************************************************************)
\* the courses the loop has finished with
Processed == 1..Len(allocated_courses)

\* the outcome written for course j
Outcome(j) == allocated_courses[j].allocated_room

Running == pc \in {"loop", "done"}

\* the diagnostic labels an outcome may be, other than a room name
DiagnosticLabels ==
    {"ROOM REQUIRED", "IT LAB REQUIRED", "INVALID TIME SLOT", "No Room", "Facroom"}

\* the labels of the special cases that skip the room search
SpecialLabels == {"Facroom", "No Room", "INVALID TIME SLOT"}

\* C1: no double booking.  At every point of a run, and in what it returns,
\* two distinct courses that were given the same room have slots that do not
\* conflict.
C1_NoDoubleBooking ==
    Running =>
        /\ \A i, j \in Processed :
               (i # j /\ Outcome(i) \in RoomSet /\ Outcome(i) = Outcome(j))
                   => ~has_time_conflict(parsed_time_slot[i], parsed_time_slot[j])
        /\ pc = "done" =>
               \A i, j \in 1..Len(result.result_df) :
                   (/\ i # j
                    /\ result.result_df[i].allocated_room \in RoomSet
                    /\ result.result_df[i].allocated_room = result.result_df[j].allocated_room)
                       => ~has_time_conflict(parsed_time_slot[i], parsed_time_slot[j])

\* C1 witness: a room given to two courses that meet on a common day
C1_Witness ==
    /\ Running
    /\ \E i, j \in Processed :
           /\ i < j
           /\ Outcome(i) \in RoomSet
           /\ Outcome(i) = Outcome(j)
           /\ DaySet(parsed_time_slot[i]) \cap DaySet(parsed_time_slot[j]) # {}
           /\ parsed_time_slot[i].start_time < parsed_time_slot[i].end_time
           /\ parsed_time_slot[j].start_time < parsed_time_slot[j].end_time

C3_OneOutcomeEach ==
    Running =>
        /\ Len(allocated_courses) <= Len(courses_df)
        /\ \A j \in Processed :
               /\ allocated_courses[j].course_code = courses_df[j].course_code
               /\ allocated_courses[j].days = courses_df[j].days
               /\ allocated_courses[j].times = courses_df[j].times
               /\ Outcome(j) \in RoomSet \cup DiagnosticLabels
        /\ pc = "done" =>
               /\ result.result_df = allocated_courses
               /\ Len(result.result_df) = Len(courses_df)

\* C3, the step part: a record, once written, is never changed
C3_WrittenOnce ==
    \A j \in Processed :
        /\ Len(allocated_courses') >= j
        /\ allocated_courses'[j] = allocated_courses[j]

\* C3: completeness.  Exactly one output record per course, in input order,
\* with a room name or a diagnostic label, written once and never changed.
C3_Completeness == [](C3_OneOutcomeEach) /\ [][C3_WrittenOnce]_vars

\* C3 witness: a returned run of three courses with a room and a label
C3_Witness ==
    /\ pc = "done"
    /\ Len(result.result_df) = 3
    /\ courses_df[1] # courses_df[2]
    /\ \E i, j \in 1..3 : Outcome(i) \in RoomSet /\ Outcome(j) \in DiagnosticLabels

\* the number of processed courses whose outcome is in the set S
OutcomeCount(S) == Cardinality({j \in Processed : Outcome(j) \in S})

\* C4: conservation.  After each processed course, the courses given a room
\* plus the shortfall count plus the special-cased courses are the courses
\* processed; at the end, with the returned count and main_app's metric,
\* they are all the courses.
C4_Conservation ==
    Running =>
        /\ OutcomeCount(RoomSet) + rooms_required_count + OutcomeCount(SpecialLabels)
               = Len(allocated_courses)
        /\ pc = "done" =>
               /\ OutcomeCount(RoomSet) + result.rooms_needed + OutcomeCount(SpecialLabels)
                      = Len(courses_df)
               /\ allocated_count(result.result_df) = OutcomeCount(RoomSet)

\* C4 witness: a returned run with a room, a shortfall and an invalid slot
C4_Witness ==
    /\ pc = "done"
    /\ OutcomeCount(RoomSet) > 0
    /\ result.rooms_needed > 0
    /\ OutcomeCount({INVALID_TIME_SLOT}) > 0

\* C5: has_time_conflict is false if a slot is absent, false without a
\* common weekday, and otherwise true exactly when neither slot ends by the
\* start of the other; an end at 600 and a start at 600 do not conflict, an
\* end at 601 and a start at 600 (of two slots with start < end) do.
C5_HalfOpenConflict ==
    pc = "returned" =>
        /\ (slot1 = None \/ slot2 = None) => conflict = FALSE
        /\ (slot1 # None /\ slot2 # None) =>
               LET common == \E a \in 1..Len(slot1.days), b \in 1..Len(slot2.days) :
                                 slot1.days[a] = slot2.days[b]
                   apart == slot1.end_time <= slot2.start_time
                            \/ slot2.end_time <= slot1.start_time
               IN  /\ ~common => conflict = FALSE
                   /\ common => (conflict = ~apart)
                   /\ (common /\ slot1.end_time = 600 /\ slot2.start_time = 600)
                          => conflict = FALSE
                   /\ (/\ common
                       /\ slot1.end_time = 601 /\ slot2.start_time = 600
                       /\ slot1.start_time < slot1.end_time
                       /\ slot2.start_time < slot2.end_time)
                          => conflict = TRUE

\* C5 witness: two slots on a common day that touch at minute 600
C5_Witness ==
    /\ pc = "returned"
    /\ conflict = FALSE
    /\ slot1 # None
    /\ slot2 # None
    /\ DaySet(slot1) \cap DaySet(slot2) # {}
    /\ slot1.start_time < slot1.end_time
    /\ slot1.end_time = 600
    /\ slot2.start_time = 600
    /\ slot2.start_time < slot2.end_time

\* all courses have the same valid slot, of positive length
SameSlotRun ==
    /\ Len(courses_df) >= 1
    /\ \A j \in 1..Len(courses_df) :
           /\ parsed_time_slot[j] # None
           /\ DaySet(parsed_time_slot[j]) = DaySet(parsed_time_slot[1])
           /\ parsed_time_slot[j].start_time = parsed_time_slot[1].start_time
           /\ parsed_time_slot[j].end_time = parsed_time_slot[1].end_time
           /\ parsed_time_slot[j].start_time < parsed_time_slot[j].end_time

\* C6: n courses with the same slot and k < n rooms: the first k courses
\* get k distinct rooms, every later course gets ROOM REQUIRED, and the
\* returned count is n - k.
C6_SameSlotFirstK ==
    LET n == Len(courses_df)
        k == Cardinality(RoomSet)
    IN  (pc = "done" /\ SameSlotRun /\ n > k) =>
            /\ \A j \in 1..k : Outcome(j) \in RoomSet
            /\ \A i, j \in 1..k : i # j => Outcome(i) # Outcome(j)
            /\ \A j \in (k + 1)..n : Outcome(j) = ROOM_REQUIRED
            /\ result.rooms_needed = n - k

\* C6 witness: a returned same-slot run with more rooms than the window of 8
C6_Witness ==
    /\ pc = "done"
    /\ SameSlotRun
    /\ Cardinality(RoomSet) > ResetPeriod
    /\ Len(courses_df) > Cardinality(RoomSet)

\* C7, the step part: the candidates of a lab course list every IT lab before
\* every other room, those of another course every other room before every
\* IT lab; a lab course gets another room only if every candidate IT lab has
\* a conflict, and the other way round.
C7_PreferredOrder ==
    (InLoop /\ parsed_time_slot[index] # None) =>
        LET time_slot == parsed_time_slot[index]
            c == preferred_rooms'
            out == allocated_courses'[index].allocated_room
        IN  IF needs_lab_room(courses_df[index].course_code)
            THEN /\ \A p, q \in 1..Len(c) : (IsLab[c[p]] /\ ~IsLab[c[q]]) => p < q
                 /\ (out \in RoomSet /\ ~IsLab[out]) =>
                        \A p \in 1..Len(c) : IsLab[c[p]] => has_conflict(c[p], time_slot)
            ELSE /\ \A p, q \in 1..Len(c) : (~IsLab[c[p]] /\ IsLab[c[q]]) => p < q
                 /\ (out \in RoomSet /\ IsLab[out]) =>
                        \A p \in 1..Len(c) : ~IsLab[c[p]] => has_conflict(c[p], time_slot)

\* one IT lab, one other room, and MIS101 and MAN405 at the same time
ScenarioB ==
    /\ Len(rooms_list) = 2
    /\ \E a, b \in 1..2 : is_lab_room(rooms_list[a]) /\ ~is_lab_room(rooms_list[b])
    /\ Len(courses_df) = 2
    /\ {str(courses_df[1].course_code), str(courses_df[2].course_code)} = {"MIS101", "MAN405"}
    /\ courses_df[1].days = courses_df[2].days
    /\ courses_df[1].times = courses_df[2].times

\* C7, the scenario: MIS101 gets the IT lab, MAN405 the other room, no shortfall
C7_ScenarioB ==
    (pc = "done" /\ ScenarioB /\ SameSlotRun) =>
        /\ \A j \in 1..2 :
               /\ Outcome(j) \in RoomSet
               /\ is_lab_room(Outcome(j)) = (str(courses_df[j].course_code) = "MIS101")
        /\ result.rooms_needed = 0

\* C7: room-type preference, in the candidate order and in scenario B with
\* the two courses in either order.
C7_RoomTypePreference == [][C7_PreferredOrder]_vars /\ [](C7_ScenarioB)

\* C7 witness: scenario B returned, with MAN405 first in the input
C7_Witness ==
    /\ pc = "done"
    /\ ScenarioB
    /\ SameSlotRun
    /\ str(courses_df[1].course_code) = "MAN405"
    /\ is_lab_room(Outcome(2))

\* C8, the step part: a course without a slot gets INVALID TIME SLOT and the
\* ledgers, the recently-used set, the counter, the shortfall count and the
\* candidate list stay as they are.
C8_InvalidStep ==
    (InLoop /\ parsed_time_slot[index] = None) =>
        /\ Len(allocated_courses') = index
        /\ allocated_courses'[index].allocated_room = INVALID_TIME_SLOT
        /\ UNCHANGED <<room_schedule, recently_allocated, allocation_counter,
                       rooms_required_count, preferred_rooms>>

\* C8, the state part: the courses after it are processed too; the returned
\* dataframe has an outcome for every course.
C8_RestProcessed ==
    pc = "done" =>
        /\ Len(result.result_df) = Len(courses_df)
        /\ \A j \in 1..Len(courses_df) :
               parsed_time_slot[j] = None
                   <=> result.result_df[j].allocated_room = INVALID_TIME_SLOT

\* C8: an unparsed slot is marked INVALID TIME SLOT without a room search and
\* without touching the run's state, and the rest of the input is processed.
C8_InvalidSlotSkipped == [][C8_InvalidStep]_vars /\ [](C8_RestProcessed)

\* C8 witness: a room given to a course that follows an invalid one
C8_Witness ==
    /\ Running
    /\ \E j \in Processed :
           /\ j + 1 \in Processed
           /\ Outcome(j) = INVALID_TIME_SLOT
           /\ Outcome(j + 1) \in RoomSet

\* C9: a course whose time text is "25:99 AM - 3:00 PM" has no parsed slot,
\* and its outcome is INVALID TIME SLOT.
C9_OutOfRangeClockInvalid ==
    Running =>
        \A j \in 1..Len(courses_df) :
            courses_df[j].times = Cell("25:99 AM - 3:00 PM") =>
                /\ parsed_time_slot[j] = None
                /\ j \in Processed => Outcome(j) = INVALID_TIME_SLOT

\* C10: a course whose days text is "Fri" gets the outcome No Room.
C10_FridayNoRoom ==
    Running =>
        \A j \in Processed :
            courses_df[j].days = Cell("Fri") => Outcome(j) = "No Room"

\* C11: every slot parse_time_slot returns has at least one weekday and
\* 0 <= start < end <= 1439; "11:00 PM - 1:00 AM" and "9:00 AM - 9:00 AM"
\* yield no slot.
C11_ParsedSlotWellFormed ==
    pc = "parsed" =>
        /\ parsed_time_slot[1] # None =>
               /\ Len(parsed_time_slot[1].days) >= 1
               /\ 0 <= parsed_time_slot[1].start_time
               /\ parsed_time_slot[1].start_time < parsed_time_slot[1].end_time
               /\ parsed_time_slot[1].end_time <= 1439
        /\ courses_df[1].times \in {Cell("11:00 PM - 1:00 AM"), Cell("9:00 AM - 9:00 AM")}
               => parsed_time_slot[1] = None

\* C12: a slot with start >= end conflicts with nothing: whenever one of
\* the two arguments of has_time_conflict has start >= end, in either
\* position, the result is false.
C12_InvertedNeverConflicts ==
    (/\ pc = "returned"
     /\ \/ slot1 # None /\ slot1.start_time >= slot1.end_time
        \/ slot2 # None /\ slot2.start_time >= slot2.end_time)
        => conflict = FALSE

\* C13: a course left without a room is marked IT LAB REQUIRED if its course
\* code needs an IT lab and ROOM REQUIRED otherwise, and at the end the
\* returned count is the number of courses marked ROOM REQUIRED.
C13_ShortfallLabels ==
    Running =>
        /\ \A j \in Processed :
               (parsed_time_slot[j] # None /\ Outcome(j) \notin RoomSet) =>
                   Outcome(j) = IF needs_lab_room(courses_df[j].course_code)
                                THEN "IT LAB REQUIRED"
                                ELSE ROOM_REQUIRED
        /\ pc = "done" => result.rooms_needed = OutcomeCount({ROOM_REQUIRED})

\* how often a room occurs in a list
Occurrences(rooms_seq, room) ==
    Cardinality({k \in 1..Len(rooms_seq) : rooms_seq[k] = room})

\* C14: whatever the shuffles do, the list distribute_rooms_by_priority returns
\* holds every room of the input that is not excluded as often as the input
\* does, no excluded room and no other room, and the priority groups of its
\* rooms never decrease along the list.
C14_DistributeByPriority ==
    pc = "distributed" =>
        /\ \A room \in ModelRooms :
               Occurrences(preferred_rooms, room) =
                   IF room \in recently_allocated THEN 0
                   ELSE Occurrences(rooms_list, room)
        /\ \A k \in 1..Len(preferred_rooms) :
               /\ preferred_rooms[k] \in ModelRooms
               /\ preferred_rooms[k] \notin recently_allocated
               /\ \E i \in 1..Len(rooms_list) : rooms_list[i] = preferred_rooms[k]
        /\ \A a, b \in 1..Len(preferred_rooms) :
               a < b => get_room_priority_group(preferred_rooms[a])
                            <= get_room_priority_group(preferred_rooms[b])

\* an excluded room is dropped and two rooms of one group come out swapped
C14_Witness ==
    /\ pc = "distributed"
    /\ rooms_list = <<"SSK201", "CBM101", "CBM102">>
    /\ recently_allocated = {"SSK201"}
    /\ preferred_rooms = <<"CBM102", "CBM101">>

\* C15, one iteration of a course whose slot was parsed: if a room is given it
\* is the first of the candidates without a conflicting booking, its ledger
\* gains this slot at the end, no other ledger changes, and the room joins the
\* recently used rooms (which the eighth allocation then clears); if no room is
\* given, no ledger changes.
C15_Step ==
    (InLoop /\ parsed_time_slot[index] # None) =>
        LET time_slot == parsed_time_slot[index]
            room == allocated_courses'[index].allocated_room
        IN  /\ Len(allocated_courses') = index
            /\ IF room \in RoomSet
               THEN /\ \E k \in 1..Len(preferred_rooms') :
                           /\ preferred_rooms'[k] = room
                           /\ ~has_conflict(room, time_slot)
                           /\ \A j \in 1..(k - 1) :
                                  has_conflict(preferred_rooms'[j], time_slot)
                    /\ room_schedule' =
                           [room_schedule EXCEPT ![room] = Append(@, time_slot)]
                    /\ \A other \in RoomSet \ {room} :
                           room_schedule'[other] = room_schedule[other]
                    /\ recently_allocated' =
                           IF allocation_counter' % ResetPeriod = 0 THEN {}
                           ELSE recently_allocated \cup {room}
               ELSE room_schedule' = room_schedule

\* C15: greedy first fit.  The room given to a course is the first candidate
\* free of conflicts; only that room's ledger is extended, by exactly this
\* slot, and the room is added to the recently used rooms; a course that gets
\* no room changes no ledger.
C15_GreedyFirstFit == [][C15_Step]_vars

\* C15 witness: the course just processed got a room after the search passed
\* over an earlier candidate that was booked at a conflicting time
C15_Witness ==
    /\ Running
    /\ Len(allocated_courses) >= 1
    /\ parsed_time_slot[Len(allocated_courses)] # None
    /\ Outcome(Len(allocated_courses)) \in RoomSet
    /\ preferred_rooms[1] # Outcome(Len(allocated_courses))
    /\ Len(room_schedule[preferred_rooms[1]]) >= 1

\* C16, one step of a run: the allocation that brings the counter to a
\* multiple of 8 leaves the recently used set empty; no other step takes a room
\* out of the set; the counter advances by one, and only when a room is given;
\* a course marked ROOM REQUIRED or INVALID TIME SLOT leaves the counter alone
\* and takes no room out of the set.
C16_Step ==
    LET eighth == /\ allocation_counter' = allocation_counter + 1
                  /\ allocation_counter' % ResetPeriod = 0
    IN  /\ eighth => recently_allocated' = {}
        /\ ~eighth => recently_allocated \subseteq recently_allocated'
        /\ allocation_counter' \in {allocation_counter, allocation_counter + 1}
        /\ InLoop =>
               IF allocated_courses'[index].allocated_room \in RoomSet
               THEN allocation_counter' = allocation_counter + 1
               ELSE /\ allocation_counter' = allocation_counter
                    /\ recently_allocated \subseteq recently_allocated'

\* C16: the fairness reset.  The recently used set is cleared by every eighth
\* successful allocation and by nothing else; between two resets it only grows;
\* a shortfall or an invalid slot neither advances the counter nor removes a
\* room from the set.
C16_FairnessReset == [][C16_Step]_vars

\* C16 witness: a returned run that passed a reset, gave a room after it and
\* then marked a course ROOM REQUIRED while the set was not empty
C16_Witness ==
    /\ pc = "done"
    /\ allocation_counter > ResetPeriod
    /\ recently_allocated # {}
    /\ Outcome(Len(allocated_courses)) = ROOM_REQUIRED

\* the number of rooms given to the courses 1..j
AllocationsUpTo(j) == Cardinality({i \in 1..j : Outcome(i) \in RoomSet})

\* the window of 8 allocations the room of course j was given in
Window(j) == (AllocationsUpTo(j) - 1) \div ResetPeriod

\* C17: after every processed course the recently used set has as many rooms
\* as the allocation counter modulo 8, so never more than 7, and two courses
\* that were given rooms in the same window of 8 allocations were given
\* different rooms.
C17_WindowDistinctRooms ==
    Running =>
        /\ Cardinality(recently_allocated) = allocation_counter % ResetPeriod
        /\ Cardinality(recently_allocated) <= ResetPeriod - 1
        /\ allocation_counter = AllocationsUpTo(Len(allocated_courses))
        /\ \A i, j \in Processed :
               (/\ i < j
                /\ Outcome(i) \in RoomSet
                /\ Outcome(j) \in RoomSet
                /\ Window(i) = Window(j)) => Outcome(i) # Outcome(j)

\* C17 witness: two rooms given in the second window, one of them a room that
\* was given in the first window already
C17_Witness ==
    /\ Running
    /\ allocation_counter = ResetPeriod + 2
    /\ Cardinality(recently_allocated) = 2
    /\ \E i, j \in Processed :
           /\ i < j
           /\ Outcome(i) \in RoomSet
           /\ Outcome(i) = Outcome(j)
           /\ Window(i) = 0
           /\ Window(j) = 1

=============================================================================
